---------------------------- MODULE Spec2Model ----------------------------
(***************************************************************************)
(* A model of terraria_cool_colorer: a TCP relay that forwards every       *)
(* buffer unchanged except chat packets sent by the client, whose text is  *)
(* rewritten with colour tags.                                             *)
(*                                                                         *)
(* Text is a sequence of Unicode code points, a byte string a sequence of  *)
(* numbers 0..255.  An f32 is modelled by the exact rational <<n, d>>      *)
(* (d > 0) it approximates.                                                *)
(***************************************************************************)
EXTENDS Integers, Sequences, FiniteSets, TLC

(***************************************************************************)
(* Characters the code tests for or emits.                                 *)
(***************************************************************************)
SPACE == 32
LBRACKET == 91
RBRACKET == 93
SLASH == 47
COLON == 58
LOWER_C == 99
LOWER_A == 97
DIGIT_ZERO == 48
REPLACEMENT == 65533

(***************************************************************************)
(* Rationals standing for f32 values.                                      *)
(***************************************************************************)
RMul(x, y) == <<x[1] * y[1], x[2] * y[2]>>
RAdd(x, y) == <<x[1] * y[2] + y[1] * x[2], x[2] * y[2]>>
RSub(x, y) == <<x[1] * y[2] - y[1] * x[2], x[2] * y[2]>>
RLess(x, y) == x[1] * y[2] < y[1] * x[2]
RFloor(x) == x[1] \div x[2]
RCeil(x) == -((-x[1]) \div x[2])
RFract(x) == <<x[1] - RFloor(x) * x[2], x[2]>>
\* f32::round: to the nearest integer, halves away from zero
RRound(x) ==
    IF x[1] >= 0 THEN (2 * x[1] + x[2]) \div (2 * x[2])
    ELSE -((2 * (-x[1]) + x[2]) \div (2 * x[2]))
\* `as u8` on a float saturates
AsU8(n) == IF n < 0 THEN 0 ELSE IF n > 255 THEN 255 ELSE n

Max(a, b) == IF a > b THEN a ELSE b

(***************************************************************************)
(* Color                                                                   *)
(***************************************************************************)
Color(r, g, b) == [r |-> r, g |-> g, b |-> b]

\* {:02x}: one lowercase hexadecimal digit
HexDigit(n) == IF n < 10 THEN DIGIT_ZERO + n ELSE LOWER_A + (n - 10)

HexByte(n) == <<HexDigit(n \div 16), HexDigit(n % 16)>>

\* impl Display for Color
ColorDisplay(color) == HexByte(color.r) \o HexByte(color.g) \o HexByte(color.b)

\* The four closures of Color::interpolate, applied to one channel.  coin is
\* the outcome of rand::random::<f32>() < 0.5.  Cubic never returns: it is
\* guarded out by the caller (CubicPanics).
InterpChannel(lhs, rhs, amount, interpolation, coin) ==
    CASE interpolation = "Random" -> IF coin THEN lhs ELSE rhs
      [] interpolation = "Nearest" -> IF RLess(amount, <<1, 2>>) THEN lhs ELSE rhs
      [] interpolation = "Linear" ->
            AsU8(RRound(RAdd(<<lhs, 1>>, RMul(<<rhs - lhs, 1>>, amount))))
      [] OTHER -> lhs

\* The periodic stream of coin flips: flip number k (from 0)
Coin(coins, k) == coins[(k % Len(coins)) + 1]

\* Color::interpolate with interpolate_inner: r, g, b in this order, each
\* drawing one coin under Random
ColorInterpolate(self, other, amount, interpolation, coins, flips) ==
    Color(InterpChannel(self.r, other.r, amount, interpolation, Coin(coins, flips)),
          InterpChannel(self.g, other.g, amount, interpolation, Coin(coins, flips + 1)),
          InterpChannel(self.b, other.b, amount, interpolation, Coin(coins, flips + 2)))

(***************************************************************************)
(* Colorer: [colors, shift, interpolation, repeat].  shift is None or      *)
(* Some(x).                                                                *)
(***************************************************************************)
None == <<>>
Some(x) == <<x>>

\* Colorer::solid
solid(self) == IF Len(self.colors) = 1 THEN Some(self.colors[1]) ELSE None

wordAlways(self, drawn) == [self EXCEPT !.shift = Some(drawn)]

\* Colorer::word; drawn is the value rand::random() returns
word(self, drawn) ==
    IF self.shift # None THEN [self EXCEPT !.shift = Some(drawn)] ELSE self

\* Colorer::new, for a non-empty colour list
ColorerNew(colors, shift, interpolation, repeat, drawn) ==
    word([colors |-> colors,
          shift |-> IF shift THEN Some(<<0, 1>>) ELSE None,
          interpolation |-> interpolation,
          repeat |-> repeat], drawn)

\* Colorer::interpolate (indices from 0)
ColorerInterpolate(self, left, right0, amount, coins, flips) ==
    LET right == IF right0 >= Len(self.colors) THEN 0 ELSE right0
    IN  ColorInterpolate(self.colors[left + 1], self.colors[right + 1], amount,
                         self.interpolation, coins, flips)

\* Lines 260-265 of Colorer::color: the position scaled by repeat, the shift
\* added when there is one
ShiftedPosition(self, position) ==
    LET scaled == RMul(position, self.repeat)
    IN  IF self.shift # None THEN RAdd(scaled, self.shift[1]) ELSE scaled

WrapPositionNever(self, position) == ShiftedPosition(self, position)

\* The wrapped position of Colorer::color, lines 260-270
WrapPosition(self, position) ==
    LET shifted == ShiftedPosition(self, position)
    IN  IF ~RLess(shifted, self.repeat) THEN RSub(shifted, self.repeat) ELSE shifted

ColorPositionCyclic(self, position) ==
    RMul(<<Len(self.colors), 1>>, WrapPosition(self, position))

\* max_val as f32 * position, lines 272-280
ColorPosition(self, position) ==
    LET max_val == IF self.shift = None THEN Len(self.colors) - 1 ELSE Len(self.colors)
    IN  RMul(<<max_val, 1>>, WrapPosition(self, position))

\* The colour Colorer::color picks for a character that is not a space
PickColor(self, position, coins, flips) ==
    IF Len(self.colors) = 1 THEN self.colors[1]
    ELSE LET cp == ColorPosition(self, position)
         IN  ColorerInterpolate(self, RFloor(cp) % Len(self.colors),
                                RCeil(cp) % Len(self.colors), RFract(cp), coins, flips)

CubicPanicsOnSpace(self, c) == Len(self.colors) # 1 /\ self.interpolation = "Cubic"

\* Whether Colorer::color reaches todo!() for character c
CubicPanics(self, c) ==
    c # SPACE /\ Len(self.colors) # 1 /\ self.interpolation = "Cubic"

\* format!("[c/{color}:")
ColorString(color) == <<LBRACKET, LOWER_C, SLASH>> \o ColorDisplay(color) \o <<COLON>>

\* Colorer::color: the string for character c
color(self, c, position, coins, flips) ==
    IF c = SPACE THEN <<c>>
    ELSE ColorString(PickColor(self, position, coins, flips)) \o <<c, RBRACKET>>


(***************************************************************************)
(* Colorer::color_text.  The scanner's state: out is new_message, ignore   *)
(* and index are the locals of that name, flips counts the coins drawn so  *)
(* far, panicked records that todo!() was reached (the call then never     *)
(* returns).  Two fields only observe the run: src gives, for every        *)
(* character of out, the position in text it was copied from (0 for a      *)
(* character the scanner injected), and calls lists the invocations of     *)
(* Colorer::color: the character c, its position at in text, and the index *)
(* and total the position argument was computed from.                      *)
(***************************************************************************)
Zeros(n) == [k \in 1..n |-> 0]

ScanStart == [out |-> <<>>, src |-> <<>>, ignore |-> FALSE, index |-> 0,
              flips |-> 0, panicked |-> FALSE, calls |-> <<>>]

\* new_message.push_str of injected text
PushInjected(st, s) == [st EXCEPT !.out = @ \o s, !.src = @ \o Zeros(Len(s))]

PushCopiedLost(st, c, i) == st

\* new_message.push(c) for the character at position i of text
PushCopied(st, c, i) == [st EXCEPT !.out = Append(@, c), !.src = Append(@, i)]

SolidBeginAlways(text, color_string) == PushInjected(ScanStart, color_string)

\* Lines 160-166: the peek at the first character and the leading tag
SolidBegin(text, color_string) ==
    LET ignore == IF text = <<>> THEN TRUE ELSE text[1] = LBRACKET
        st == [ScanStart EXCEPT !.ignore = ignore]
    IN  IF ~ignore THEN PushInjected(st, color_string) ELSE st

ReopensAlways(text, i) == text[i] = RBRACKET

\* Line 182: c==']' && iter.peek().map_or(false, |val| *val!='[')
Reopens(text, i) == text[i] = RBRACKET /\ i < Len(text) /\ text[i + 1] # LBRACKET

\* Lines 168-188: one iteration of the solid loop, on character i
SolidStep(text, color_string, i, st) ==
    LET c == text[i]
    IN  IF c = LBRACKET
        THEN LET closed == IF ~st.ignore THEN PushInjected(st, <<RBRACKET>>) ELSE st
             IN  [PushCopied(closed, c, i) EXCEPT !.ignore = TRUE]
        ELSE LET pushed == PushCopied(st, c, i)
             IN  IF Reopens(text, i)
                 THEN [PushInjected(pushed, color_string) EXCEPT !.ignore = FALSE]
                 ELSE pushed

SolidEndUnclosed(st) == st

SolidEndAlways(st) == PushInjected(st, <<RBRACKET>>)

\* Lines 190-193: the closing bracket at the end of the string
SolidEnd(st) == IF ~st.ignore THEN PushInjected(st, <<RBRACKET>>) ELSE st

\* The iterations lo..hi of the solid loop, in order, from state st (the
\* range is halved only to keep the evaluation shallow on long texts)
RECURSIVE SolidLoop(_, _, _, _, _)
SolidLoop(text, color_string, lo, hi, st) ==
    IF st.panicked \/ lo > hi THEN st
    ELSE IF lo = hi THEN SolidStep(text, color_string, lo, st)
    ELSE LET mid == (lo + hi) \div 2
         IN  SolidLoop(text, color_string, mid + 1, hi,
                       SolidLoop(text, color_string, lo, mid, st))

\* new_message.push_str(colored.as_str()): of what self.color returned for
\* character i, the tag around the character is injected, the character copied
PushColored(st, colored, i) ==
    LET n == Len(colored)
    IN  [st EXCEPT !.out = @ \o colored,
                   !.src = @ \o [k \in 1..n |-> IF k = Max(1, n - 1) THEN i ELSE 0]]

\* Coins one call of Colorer::color draws
CoinsDrawn(self, c) ==
    IF c # SPACE /\ Len(self.colors) # 1 /\ self.interpolation = "Random" THEN 3 ELSE 0

EnterSpanNever(c, ignore) == ignore

\* Lines 200-203: a '[' starts suppression
EnterSpan(c, ignore) == IF c = LBRACKET THEN TRUE ELSE ignore

NextIndexWrapped(c, index) == IF c = SPACE THEN index ELSE index + 1

\* Line 213: index += 1, after every call of self.color
NextIndex(c, index) == index + 1

\* Lines 198-223: one iteration of the gradient loop, on character i
GradientStep(self, text, coins, i, st) ==
    LET c == text[i]
        chars_amount == Len(text)
        ignore == EnterSpan(c, st.ignore)
        position == <<st.index, chars_amount>>
        call == [c |-> c, at |-> i, index |-> st.index, total |-> chars_amount,
                 shift |-> self.shift]
        done ==
            IF ~ignore
            THEN IF CubicPanics(self, c)
                 THEN [st EXCEPT !.panicked = TRUE, !.calls = Append(@, call)]
                 ELSE [PushColored(st, color(self, c, position, coins, st.flips), i)
                          EXCEPT !.index = NextIndex(c, @),
                                 !.flips = @ + CoinsDrawn(self, c),
                                 !.calls = Append(@, call)]
            ELSE PushCopied(st, c, i)
    IN  IF st.panicked THEN st
        ELSE [done EXCEPT !.ignore = IF c = RBRACKET THEN FALSE ELSE ignore]

\* The iterations lo..hi of the gradient loop, in order, from state st; none
\* runs once todo!() was reached
RECURSIVE GradientLoop(_, _, _, _, _, _)
GradientLoop(self, text, coins, lo, hi, st) ==
    IF st.panicked \/ lo > hi THEN st
    ELSE IF lo = hi THEN GradientStep(self, text, coins, lo, st)
    ELSE LET mid == (lo + hi) \div 2
         IN  GradientLoop(self, text, coins, mid + 1, hi,
                          GradientLoop(self, text, coins, lo, mid, st))

\* Colorer::color_text.  drawn is the value rand::random() gives word(),
\* coins the stream of coin flips.  The result holds the Colorer after the
\* call, the scanner's final state and the number of shifts drawn.
color_text(self, text, drawn, coins) ==
    IF solid(self) # None
    THEN LET color_string == ColorString(solid(self)[1])
         IN  [colorer |-> self,
              scan |-> SolidEnd(SolidLoop(text, color_string, 1, Len(text),
                                          SolidBegin(text, color_string))),
              drawn |-> 0]
    ELSE LET worded == word(self, drawn)
         IN  [colorer |-> worded,
              scan |-> GradientLoop(worded, text, coins, 1, Len(text), ScanStart),
              drawn |-> IF self.shift # None THEN 1 ELSE 0]


(***************************************************************************)
(* UTF-8, as String::from_utf8_lossy and String::bytes apply it.           *)
(***************************************************************************)
IsCont(b) == 128 <= b /\ b <= 191

ByteAt(bytes, i) == IF i <= Len(bytes) THEN bytes[i] ELSE 0

\* The range the second byte of a sequence led by b0 must lie in
SecondOk(b0, b1) ==
    CASE b0 = 224 -> 160 <= b1 /\ b1 <= 191
      [] b0 = 237 -> 128 <= b1 /\ b1 <= 159
      [] b0 = 240 -> 144 <= b1 /\ b1 <= 191
      [] b0 = 244 -> 128 <= b1 /\ b1 <= 143
      [] OTHER -> IsCont(b1)

\* The sequence that starts at byte i: its length and whether it is valid
\* (an invalid one is the maximal prefix of a sequence, at least one byte)
Chunk(bytes, i) ==
    LET b0 == bytes[i]
        b1 == ByteAt(bytes, i + 1)
        b2 == ByteAt(bytes, i + 2)
        b3 == ByteAt(bytes, i + 3)
        width == IF b0 < 128 THEN 1
                 ELSE IF 194 <= b0 /\ b0 <= 223 THEN 2
                 ELSE IF 224 <= b0 /\ b0 <= 239 THEN 3
                 ELSE IF 240 <= b0 /\ b0 <= 244 THEN 4
                 ELSE 0
    IN  IF width = 1 THEN [len |-> 1, valid |-> TRUE]
        ELSE IF width = 0 \/ ~SecondOk(b0, b1) THEN [len |-> 1, valid |-> FALSE]
        ELSE IF width = 2 THEN [len |-> 2, valid |-> TRUE]
        ELSE IF ~IsCont(b2) THEN [len |-> 2, valid |-> FALSE]
        ELSE IF width = 3 THEN [len |-> 3, valid |-> TRUE]
        ELSE IF ~IsCont(b3) THEN [len |-> 3, valid |-> FALSE]
        ELSE [len |-> 4, valid |-> TRUE]

\* The character decoded at byte i, U+FFFD for an invalid sequence
DecodeAt(bytes, i) ==
    LET ch == Chunk(bytes, i)
        b0 == bytes[i]
        low(k) == bytes[i + k] % 64
    IN  IF ~ch.valid THEN REPLACEMENT
        ELSE CASE ch.len = 1 -> b0
               [] ch.len = 2 -> ((b0 % 32) * 64) + low(1)
               [] ch.len = 3 -> ((b0 % 16) * 4096) + (low(1) * 64) + low(2)
               [] OTHER -> ((b0 % 8) * 262144) + (low(1) * 4096) + (low(2) * 64) + low(3)

\* Whether a sequence starts at byte i: always at a byte that is no
\* continuation byte; at a continuation byte unless the sequence of the
\* nearest byte before it that is none reaches it
StartsAt(bytes, i) ==
    IF ~IsCont(bytes[i]) THEN TRUE
    ELSE LET leads == { j \in 1..(i - 1) : i - j <= 3 /\ ~IsCont(bytes[j]) }
         IN  IF leads = {} THEN TRUE
             ELSE LET j == CHOOSE x \in leads : \A y \in leads : y <= x
                  IN  Chunk(bytes, j).len <= i - j

\* String::from_utf8_lossy on bytes lo..hi of a buffer whose sequences are
\* those of the slice that starts at lo
RECURSIVE DecodeRange(_, _, _)
DecodeRange(bytes, lo, hi) ==
    IF lo > hi THEN <<>>
    ELSE IF lo = hi THEN (IF StartsAt(bytes, lo) THEN <<DecodeAt(bytes, lo)>> ELSE <<>>)
    ELSE LET mid == (lo + hi) \div 2
         IN  DecodeRange(bytes, lo, mid) \o DecodeRange(bytes, mid + 1, hi)

from_utf8_lossy(bytes) == DecodeRange(bytes, 1, Len(bytes))

\* The UTF-8 encoding of one character
EncodeChar(cp) ==
    IF cp < 128 THEN <<cp>>
    ELSE IF cp < 2048 THEN <<192 + (cp \div 64), 128 + (cp % 64)>>
    ELSE IF cp < 65536
         THEN <<224 + (cp \div 4096), 128 + ((cp \div 64) % 64), 128 + (cp % 64)>>
    ELSE <<240 + (cp \div 262144), 128 + ((cp \div 4096) % 64),
           128 + ((cp \div 64) % 64), 128 + (cp % 64)>>

\* String::bytes: the encodings of characters lo..hi, in order
RECURSIVE EncodeRange(_, _, _)
EncodeRange(text, lo, hi) ==
    IF lo > hi THEN <<>>
    ELSE IF lo = hi THEN EncodeChar(text[lo])
    ELSE LET mid == (lo + hi) \div 2
         IN  EncodeRange(text, lo, mid) \o EncodeRange(text, mid + 1, hi)

StringBytes(text) == EncodeRange(text, 1, Len(text))

(***************************************************************************)
(* ClientReader and ServerReader                                           *)
(***************************************************************************)
MINIMUM_SIZE == 10
MESSAGE_POS == 9
CHAT_MESSAGE_HEADER == <<82, 1, 0, 3, 83, 97, 121>>

terraria_typeLate(value) ==
    IF value > 128 THEN <<(value % 128) + 128, (value \div 128) % 256>>
    ELSE <<value % 128>>

\* ClientReader::terraria_type on a u32; `divisions as u8` keeps the low byte
terraria_type(value) ==
    IF value > 127 THEN <<(value % 128) + 128, (value \div 128) % 256>>
    ELSE <<value % 128>>

\* u16::to_le_bytes
ToLeBytes(n) == <<n % 256, n \div 256>>

RealMsgPosEarly(buffer) ==
    LET full_length == Len(buffer) - MESSAGE_POS
    IN  MESSAGE_POS + (IF full_length > 127 THEN 2 ELSE 1)

\* Lines 290-299: where the text starts (0-based offset)
RealMsgPos(buffer) ==
    LET full_length == Len(buffer) - MESSAGE_POS
    IN  MESSAGE_POS + (IF full_length > 128 THEN 2 ELSE 1)

\* Lines 306-324: the packet built around new_message
Rebuild(new_message) ==
    LET bytes == StringBytes(new_message)
        new_length == Len(bytes)
        \* new_length as u32 changes no length a buffer of one read can produce
        encoded_length == terraria_type(new_length)
        payload_length == (MESSAGE_POS + Len(encoded_length) + new_length) % 65536
    IN  ToLeBytes(payload_length) \o CHAT_MESSAGE_HEADER \o encoded_length \o bytes

\* ClientReader::change_chat.  The result: the Colorer after the call, the
\* bytes returned (none when color_text panicked), and what color_text did.
change_chat(self, buffer, drawn, coins) ==
    LET message == from_utf8_lossy(SubSeq(buffer, RealMsgPos(buffer) + 1, Len(buffer)))
        res == color_text(self, message, drawn, coins)
    IN  [colorer |-> res.colorer,
         data |-> IF res.scan.panicked THEN <<>> ELSE Rebuild(res.scan.out),
         chat |-> TRUE, message |-> message, scan |-> res.scan, drawn |-> res.drawn]

IsChatLoose(buffer) ==
    Len(buffer) >= MINIMUM_SIZE /\ SubSeq(buffer, 3, 8) = SubSeq(CHAT_MESSAGE_HEADER, 1, 6)

\* Line 354: size>=MINIMUM_SIZE && buffer[2..9]==CHAT_MESSAGE_HEADER
IsChat(buffer) ==
    Len(buffer) >= MINIMUM_SIZE /\ SubSeq(buffer, 3, 9) = CHAT_MESSAGE_HEADER

\* ClientReader::handle_buffer
ClientHandleBuffer(self, buffer, drawn, coins) ==
    IF IsChat(buffer) THEN change_chat(self, buffer, drawn, coins)
    ELSE [colorer |-> self, data |-> buffer, chat |-> FALSE, message |-> <<>>,
          scan |-> ScanStart, drawn |-> 0]

\* ServerReader::handle_buffer
ServerHandleBuffer(buffer) == buffer

(***************************************************************************)
(* The inputs of the model.                                                *)
(***************************************************************************)
MaxLen == 5
ShiftDen == 2
CoinLen == 2

RED == Color(255, 0, 0)
GREEN == Color(0, 255, 0)
BLUE == Color(0, 0, 255)

\* Configurations: <<colors, shift, interpolation, repeat>>
Configs ==
    { <<(<<RED>>), FALSE, "Linear", <<1, 1>> >>,
      <<(<<RED>>), TRUE, "Cubic", <<1, 1>> >>,
      <<(<<RED, GREEN>>), FALSE, "Linear", <<1, 1>> >>,
      <<(<<RED, GREEN, BLUE>>), TRUE, "Linear", <<1, 1>> >>,
      <<(<<RED, GREEN>>), TRUE, "Nearest", <<2, 1>> >>,
      <<(<<RED, GREEN, BLUE>>), FALSE, "Nearest", <<1, 2>> >>,
      <<(<<RED, GREEN>>), FALSE, "Random", <<1, 1>> >>,
      <<(<<RED, GREEN, BLUE>>), TRUE, "Cubic", <<1, 1>> >>,
      <<(<<RED, GREEN>>), TRUE, "Linear", <<1, 4>> >>,
      <<(<<RED, GREEN>>), FALSE, "Linear", <<2, 1>> >> }

\* The values rand::random::<f32>() is taken to return: k/ShiftDen in [0, 1)
ShiftValues == { <<k, ShiftDen>> : k \in 0..(ShiftDen - 1) }

\* The coin streams: every stream of period CoinLen
CoinStreams == [1..CoinLen -> BOOLEAN]

\* The draws that can change the outcome of a call on colorer c
DrawsFor(c) == IF c.shift # None /\ Len(c.colors) > 1 THEN ShiftValues ELSE {<<0, 1>>}
CoinsFor(c) ==
    IF c.interpolation = "Random" /\ Len(c.colors) > 1 THEN CoinStreams
    ELSE {[k \in 1..CoinLen |-> TRUE]}

Chars == {LOWER_A, SPACE, LBRACKET, RBRACKET}

SeqsUpTo(S, n) == UNION { [1..k -> S] : k \in 0..n }

Messages == SeqsUpTo(Chars, MaxLen)

\* The messages recoloured twice
ShortMessages == SeqsUpTo(Chars, MaxLen - 1)

\* The Colorers start_listening builds at line 182
NewColorers ==
    { ColorerNew(cfg[1], cfg[2], cfg[3], cfg[4], d) :
        cfg \in Configs, d \in ShiftValues }

\* The texts of the chat packets handed to the framer, as bytes: "", "a",
\* "a a", "[a]", "a[", e-acute, a lone lead byte, "a" e-acute "]"
FramerTexts ==
    { <<>>, <<97>>, <<97, 32, 97>>, <<91, 97, 93>>, <<97, 91>>, <<195, 169>>,
      <<195>>, <<97, 195, 169, 93>> }

\* A well-formed chat packet around text (bytes)
ChatPacket(text) ==
    LET field == terraria_type(Len(text))
    IN  ToLeBytes(MESSAGE_POS + Len(field) + Len(text)) \o CHAT_MESSAGE_HEADER
            \o field \o text

\* Chat packets; one with a prefix that is not its length; packets with one
\* byte of the header changed; packets cut short
FramerBuffers ==
    { ChatPacket(t) : t \in FramerTexts }
        \cup { [ChatPacket(<<97>>) EXCEPT ![1] = 0] }
        \cup { [ChatPacket(<<97>>) EXCEPT ![k] = 255] : k \in 3..9 }
        \cup { SubSeq(ChatPacket(<<97, 97>>), 1, n) : n \in 0..9 }

\* Lengths of the long texts: around the width change of the length field,
\* and long enough for the recoloured text to pass 65535 bytes
LongLens == {127, 128, 5461}

LongBuffers == { ChatPacket([k \in 1..n |-> LOWER_A]) : n \in LongLens }

\* Lengths of texts around the width change of the length field, of the
\* packet read (127, 128) and of the packet built in solid mode (116, 117:
\* the tag adds 11 bytes)
WidthLens == {116, 117, 127, 128}

WidthBuffers ==
    { ChatPacket([k \in 1..n |-> LOWER_A]) : n \in WidthLens }
        \cup { ChatPacket(t) : t \in FramerTexts }

MaxCalls == 2
MaxValue == 33000
MaxConns == 2
MaxReads == 2

\* The configurations and the buffers of the relay
RelayConfigs == { cfg \in Configs : ~cfg[2] /\ cfg[3] = "Linear" }

RelayBuffers == { <<3, 0, 1>>, ChatPacket(<<97>>) }

(***************************************************************************)
(* State.  config is the Config the Colorer was built from and colorer the *)
(* Colorer under study; before is its value at the start of the last call, *)
(* input the last text or buffer handed in, message the text color_text    *)
(* was last called on (empty when it was not), scan the final state of the *)
(* scanner of color_text in that call, output the bytes handle_buffer      *)
(* returned, draws the number of shifts the call drew, ncalls the number   *)
(* of calls made.  value and encoded are the argument and the result of    *)
(* terraria_type.                                                          *)
(*                                                                         *)
(* The relay: exited says that the process has ended and exitCode with     *)
(* which status; conns lists the accepted connections, each with the       *)
(* Colorer and the two pumps start_listening spawned for it; reads counts  *)
(* the reads made.  A pump: pc is where its loop stands ("read", "write",  *)
(* or "dead" once its thread panicked), data the bytes it is about to      *)
(* write; the rest records what it did: readLog the buffers it read, sent  *)
(* the bytes its write handle accepted, io the number of reads and writes  *)
(* it made, readErr whether a read of it failed, writeErr the kind of      *)
(* error its write failed with ("" for none).  access records, for one     *)
(* connection, which thread used which handle or the Colorer, and how.     *)
(***************************************************************************)
VARIABLES config, colorer, before, input, message, scan, output, draws, ncalls, value,
          encoded, exited, exitCode, conns, reads

textVars == <<config, colorer, before, input, message, scan, output, draws, ncalls>>

codecVars == <<value, encoded>>

relayVars == <<exited, exitCode, conns, reads>>

vars == <<textVars, codecVars, relayVars>>

RelayIdle == exited = FALSE /\ exitCode = 0 /\ conns = <<>> /\ reads = 0

ColorerInit ==
    /\ config \in Configs
    /\ \E d \in ShiftValues :
         colorer = ColorerNew(config[1], config[2], config[3], config[4], d)
    /\ before = colorer
    /\ input = <<>>
    /\ message = <<>>
    /\ scan = ScanStart
    /\ output = <<>>
    /\ draws = 0
    /\ ncalls = 0

CodecIdle == value = 0 /\ encoded = <<>>

TextInit == ColorerInit /\ CodecIdle /\ RelayIdle

\* One call colorer.color_text(text), text a message of the set texts
ColorTextFrom(texts) ==
    /\ ncalls = 0
    /\ \E text \in texts, drawn \in DrawsFor(colorer), coins \in CoinsFor(colorer) :
         LET res == color_text(colorer, text, drawn, coins)
         IN  /\ before' = colorer
             /\ input' = text
             /\ message' = text
             /\ colorer' = res.colorer
             /\ scan' = res.scan
             /\ draws' = res.drawn
             /\ ncalls' = ncalls + 1
    /\ UNCHANGED <<config, output, codecVars, relayVars>>

ColorText == ColorTextFrom(Messages)

\* color_text never reads the shift Colorer::new drew: solid mode has no use
\* for it and gradient mode draws another one first (line 197).  Where only
\* single calls of color_text are studied, one value of it is taken.
FirstDrawZero == colorer.shift \in {None, Some(<<0, ShiftDen>>)}

ScanInit == TextInit /\ FirstDrawZero

SpecText == ScanInit /\ [][ColorText]_vars

\* The first of two calls
ColorFirst == ColorTextFrom(ShortMessages)

\* A second call, on the text the first call returned: the text handed in
\* from outside stays in input
ColorAgain ==
    /\ ncalls = 1
    /\ ~scan.panicked
    /\ \E drawn \in DrawsFor(colorer), coins \in CoinsFor(colorer) :
         LET res == color_text(colorer, scan.out, drawn, coins)
         IN  /\ before' = colorer
             /\ message' = scan.out
             /\ colorer' = res.colorer
             /\ scan' = res.scan
             /\ draws' = res.drawn
             /\ ncalls' = ncalls + 1
    /\ UNCHANGED <<config, input, output, codecVars, relayVars>>

SpecTwice == ScanInit /\ [][ColorFirst \/ ColorAgain]_vars

\* One call of ClientReader::handle_buffer on a buffer of the set buffers
HandleFrom(buffers) ==
    /\ \E buffer \in buffers, drawn \in DrawsFor(colorer), coins \in CoinsFor(colorer) :
         LET res == ClientHandleBuffer(colorer, buffer, drawn, coins)
         IN  /\ before' = colorer
             /\ input' = buffer
             /\ message' = res.message
             /\ colorer' = res.colorer
             /\ scan' = res.scan
             /\ output' = res.data
             /\ draws' = res.drawn
             /\ ncalls' = ncalls + 1
    /\ UNCHANGED <<config, codecVars, relayVars>>

\* The framer on a sequence of buffers
HandleBuffer == ncalls < MaxCalls /\ HandleFrom(FramerBuffers)

SpecFramer == TextInit /\ [][HandleBuffer]_vars

\* The framer on one buffer, long ones included
HandleLongBuffer == ncalls = 0 /\ HandleFrom(LongBuffers \cup FramerBuffers)

SpecLong == TextInit /\ [][HandleLongBuffer]_vars

\* The framer on one well-formed chat packet
HandleWidthBuffer == ncalls = 0 /\ HandleFrom(WidthBuffers)

\* The framer on the packet it built: what it returned is read again
HandleOutput ==
    /\ ncalls = 1
    /\ IsChat(input)
    /\ ~scan.panicked
    /\ HandleFrom({output})

SpecWidth == TextInit /\ [][HandleWidthBuffer \/ HandleOutput]_vars

\* One call of terraria_type
Encode ==
    /\ encoded = <<>>
    /\ \E v \in 0..MaxValue : value' = v /\ encoded' = terraria_type(v)
    /\ UNCHANGED <<textVars, relayVars>>

\* The text variables at rest, for configuration cfg
TextIdle(cfg) ==
    /\ config = cfg
    /\ colorer = ColorerNew(cfg[1], cfg[2], cfg[3], cfg[4], <<0, 1>>)
    /\ before = colorer
    /\ input = <<>>
    /\ message = <<>>
    /\ scan = ScanStart
    /\ output = <<>>
    /\ draws = 0
    /\ ncalls = 0

CodecInit ==
    /\ CodecIdle
    /\ RelayIdle
    /\ TextIdle(CHOOSE cfg \in Configs : Len(cfg[1]) = 1 /\ ~cfg[2])

SpecCodec == CodecInit /\ [][Encode]_vars

(***************************************************************************)
(* The relay: start_listening and the two pumps of each connection.        *)
(***************************************************************************)
Dirs == {"c2s", "s2c"}

NewPump == [pc |-> "read", data |-> <<>>, readLog |-> <<>>, sent |-> <<>>,
            io |-> 0, readErr |-> FALSE, writeErr |-> ""]

HandlesShared(d) ==
    IF d = "c2s" THEN [rd |-> "read_stream", wr |-> "write_connector"]
    ELSE [rd |-> "read_connector", wr |-> "write_connector"]

\* Lines 189-199: the handles moved into the thread of direction d, by the
\* names start_listening gives them: write_stream is the accepted client
\* stream and read_stream its clone, write_connector the stream connected
\* to the server and read_connector its clone
Handles(d) ==
    IF d = "c2s" THEN [rd |-> "read_stream", wr |-> "write_connector"]
    ELSE [rd |-> "read_connector", wr |-> "write_stream"]

Running(c, d) == ~exited /\ c \in 1..Len(conns)

\* Lines 170-199: a connection is accepted, the server is connected to, the
\* Colorer is built and the two pumps are spawned
Accept ==
    /\ ~exited
    /\ Len(conns) < MaxConns
    /\ \E drawn \in DrawsFor(colorer) :
         conns' = Append(conns,
                    [colorer |-> ColorerNew(config[1], config[2], config[3],
                                            config[4], drawn),
                     c2s |-> NewPump, s2c |-> NewPump, access |-> {}])
    /\ UNCHANGED <<textVars, codecVars, exited, exitCode, reads>>

\* Lines 172-180 and 155-159: accepting, connecting or cloning a handle
\* fails; start_listening returns the error, main prints it and returns
AcceptFail ==
    /\ ~exited
    /\ Len(conns) < MaxConns
    /\ exited' = TRUE
    /\ exitCode' = 0
    /\ UNCHANGED <<textVars, codecVars, conns, reads>>

\* handle_buffer of the pump of direction d; a panic of color_text ends the
\* pump's thread
Handled(conn, d, buffer, drawn, coins) ==
    IF d = "c2s"
    THEN LET res == ClientHandleBuffer(conn.colorer, buffer, drawn, coins)
         IN  [colorer |-> res.colorer, data |-> res.data, chat |-> res.chat,
              pc |-> IF res.scan.panicked THEN "dead" ELSE "write"]
    ELSE [colorer |-> conn.colorer, data |-> ServerHandleBuffer(buffer),
          chat |-> FALSE, pc |-> "write"]

\* Lines 232-234 with handle_stream: the read returns a buffer, which
\* handle_buffer turns into the data to write
ReadOk(c, d) ==
    /\ Running(c, d)
    /\ conns[c][d].pc = "read"
    /\ reads < MaxReads
    /\ \E buffer \in RelayBuffers, drawn \in DrawsFor(conns[c].colorer),
          coins \in CoinsFor(conns[c].colorer) :
         LET h == Handled(conns[c], d, buffer, drawn, coins)
         IN  conns' = [conns EXCEPT ![c].colorer = h.colorer,
                                    ![c][d].pc = h.pc,
                                    ![c][d].data = h.data,
                                    ![c][d].readLog = Append(@, buffer),
                                    ![c][d].io = @ + 1,
                                    ![c].access = @ \cup {<<d, Handles(d).rd, "read">>}
                                        \cup (IF h.chat THEN {<<d, "colorer", "color_text">>}
                                              ELSE {})]
    /\ reads' = reads + 1
    /\ UNCHANGED <<textVars, codecVars, exited, exitCode>>

\* Line 252: the read fails; the error is printed and the loop goes on
ReadErr(c, d) ==
    /\ Running(c, d)
    /\ conns[c][d].pc = "read"
    /\ reads < MaxReads
    /\ conns' = [conns EXCEPT ![c][d].readErr = TRUE, ![c][d].io = @ + 1,
                              ![c].access = @ \cup {<<d, Handles(d).rd, "read">>}]
    /\ reads' = reads + 1
    /\ UNCHANGED <<textVars, codecVars, exited, exitCode>>

\* The write handle accepted the first n bytes of the data; lines 248-250:
\* the count is not looked at, the handle is flushed, the loop goes on
Wrote(c, d, n) ==
    /\ conns' = [conns EXCEPT ![c][d].pc = "read",
                              ![c][d].sent = @ \o SubSeq(conns[c][d].data, 1, n),
                              ![c][d].data = <<>>,
                              ![c][d].io = @ + 1,
                              ![c].access = @ \cup {<<d, Handles(d).wr, "write">>}]
    /\ UNCHANGED <<textVars, codecVars, exited, exitCode, reads>>

\* Line 236: write returns Ok(n) with n the length of the data
WriteAll(c, d) ==
    /\ Running(c, d)
    /\ conns[c][d].pc = "write"
    /\ Wrote(c, d, Len(conns[c][d].data))

\* Line 236: write returns Ok(n) with n less than the length of the data
\* (of the counts Write::write may return, the model takes length - 1)
WriteShort(c, d) ==
    /\ Running(c, d)
    /\ conns[c][d].pc = "write"
    /\ Len(conns[c][d].data) > 1
    /\ Wrote(c, d, Len(conns[c][d].data) - 1)

ExitsOnBrokenPipe(kind) == kind = "BrokenPipe"

\* Lines 238-247: whether a write error of this kind ends the process
ExitsOn(kind) == TRUE

\* Lines 240-246: process::exit(0) for a broken pipe, process::exit(1) else
ExitCodeOn(kind) == IF kind = "BrokenPipe" THEN 0 ELSE 1

\* Lines 236-247: the write fails
WriteErr(c, d) ==
    /\ Running(c, d)
    /\ conns[c][d].pc = "write"
    /\ \E kind \in {"BrokenPipe", "Other"} :
         /\ conns' = [conns EXCEPT ![c][d].writeErr = kind,
                                   ![c][d].io = @ + 1,
                                   ![c][d].pc = IF ExitsOn(kind) THEN "write" ELSE "read",
                                   ![c].access = @ \cup {<<d, Handles(d).wr, "write">>}]
         /\ exited' = ExitsOn(kind)
         /\ exitCode' = IF ExitsOn(kind) THEN ExitCodeOn(kind) ELSE exitCode
    /\ UNCHANGED <<textVars, codecVars, reads>>

Pump(c, d) ==
    \/ ReadOk(c, d)
    \/ ReadErr(c, d)
    \/ WriteAll(c, d)
    \/ WriteShort(c, d)
    \/ WriteErr(c, d)

RelayNext ==
    \/ Accept
    \/ AcceptFail
    \/ \E c \in 1..MaxConns, d \in Dirs : Pump(c, d)

RelayInit ==
    /\ CodecIdle
    /\ RelayIdle
    /\ \E cfg \in RelayConfigs : TextIdle(cfg)

Spec == RelayInit /\ [][RelayNext]_vars

(***************************************************************************)
(* Claims about color_text (SpecText).                                     *)
(***************************************************************************)
Returned == ncalls > 0 /\ ~scan.panicked

SolidCall == Returned /\ before.colors = <<RED>>

NoBrackets(text) == \A i \in 1..Len(text) : text[i] \notin {LBRACKET, RBRACKET}

Wrapped(hex, run) == <<LBRACKET, LOWER_C, SLASH>> \o hex \o <<COLON>> \o run \o <<RBRACKET>>

RedHex == <<102, 102, 48, 48, 48, 48>>

\* C4 as stated: in solid mode every message without brackets comes back
\* wrapped in one tag pair carrying the configured colour.
C4_WrapsEveryBracketFree ==
    (SolidCall /\ NoBrackets(input)) => scan.out = Wrapped(RedHex, input)

\* C4, amended: in solid mode every non-empty message without brackets comes
\* back as "[c/HEX:" message "]" with the configured colour; the empty
\* message comes back empty, without any tag.
C4_WrapsNonEmptyBracketFree ==
    (SolidCall /\ NoBrackets(input)) =>
        IF input = <<>> THEN scan.out = <<>>
        ELSE scan.out = Wrapped(RedHex, input)

C4_Witness ==
    /\ SolidCall
    /\ input = <<LOWER_A, SPACE, LOWER_A>>
    /\ scan.out = Wrapped(RedHex, input)

\* Whether position i of text lies in a bracketed span that is still open
\* after character i: a span opens at a '[' and closes at the next ']'.
RECURSIVE OpenAfter(_, _)
OpenAfter(text, i) ==
    IF i = 0 THEN FALSE
    ELSE IF text[i] = RBRACKET THEN FALSE
    ELSE IF text[i] = LBRACKET THEN TRUE
    ELSE OpenAfter(text, i - 1)

\* Balanced and not nested: no '[' inside an open span, no ']' outside one,
\* no span left open at the end.
BalancedFlat(text) ==
    /\ \A i \in 1..Len(text) :
          /\ text[i] = LBRACKET => ~OpenAfter(text, i - 1)
          /\ text[i] = RBRACKET => OpenAfter(text, i - 1)
    /\ ~OpenAfter(text, Len(text))

\* The end of the run of characters from i on that satisfy the same test
RECURSIVE RunEnd(_, _, _)
RunEnd(text, i, inSpan) ==
    IF i > Len(text) THEN Len(text)
    ELSE IF inSpan THEN (IF text[i] = RBRACKET THEN i ELSE RunEnd(text, i + 1, inSpan))
    ELSE IF i < Len(text) /\ text[i + 1] # LBRACKET THEN RunEnd(text, i + 1, inSpan)
    ELSE i

\* The rendering C5 describes: every maximal bracket-free run r as
\* "[c/HEX:r]", every bracketed span verbatim, in the order of the message.
RECURSIVE Rendered(_, _, _)
Rendered(text, hex, i) ==
    IF i > Len(text) THEN <<>>
    ELSE IF text[i] = LBRACKET
         THEN LET j == RunEnd(text, i, TRUE)
              IN  SubSeq(text, i, j) \o Rendered(text, hex, j + 1)
         ELSE LET j == RunEnd(text, i, FALSE)
              IN  Wrapped(hex, SubSeq(text, i, j)) \o Rendered(text, hex, j + 1)

\* C5: in solid mode a message with balanced, unnested brackets comes back as
\* its bracket-free runs each wrapped in one tag pair and its bracketed spans
\* verbatim; a message that starts with '[' gets no leading tag.
C5_SolidSplitsAtBrackets ==
    (SolidCall /\ BalancedFlat(input)) =>
        /\ scan.out = Rendered(input, RedHex, 1)
        /\ (input # <<>> /\ input[1] = LBRACKET) => scan.src[1] = 1

C5_Witness ==
    /\ SolidCall
    /\ input = <<LOWER_A, LBRACKET, LOWER_A, RBRACKET, LOWER_A>>
    /\ scan.out = Wrapped(RedHex, <<LOWER_A>>)
                    \o <<LBRACKET, LOWER_A, RBRACKET>> \o Wrapped(RedHex, <<LOWER_A>>)

\* The last position of the span that starts at i: the next ']', or the end
\* of the text when there is none
RECURSIVE SpanEnd(_, _)
SpanEnd(text, i) ==
    IF i >= Len(text) THEN Len(text)
    ELSE IF text[i] = RBRACKET THEN i
    ELSE SpanEnd(text, i + 1)

\* The spans of text: <<first, last>> for every '[' met outside a span
Spans(text) ==
    { <<i, SpanEnd(text, i)>> :
        i \in { k \in 1..Len(text) : text[k] = LBRACKET /\ ~OpenAfter(text, k - 1) } }

\* Characters lo..hi of text stand in out one after the other, each copied
\* from its own position, nothing injected between them
CopiedVerbatim(text, st, lo, hi) ==
    \E k \in 1..Len(st.out) :
        /\ k + (hi - lo) <= Len(st.out)
        /\ \A t \in lo..hi : st.src[k + (t - lo)] = t /\ st.out[k + (t - lo)] = text[t]

\* C6: in solid and in gradient mode, every span of the message from a '['
\* met outside a span through the next ']' (or the end of the message) stands
\* in the output contiguously and unchanged, no tag injected inside it.
C6_SpansCopiedVerbatim ==
    Returned => \A sp \in Spans(input) : CopiedVerbatim(input, scan, sp[1], sp[2])

C6_Witness ==
    /\ Returned
    /\ Len(before.colors) > 1
    /\ input = <<LOWER_A, LBRACKET, LOWER_A, SPACE, LOWER_A>>
    /\ CopiedVerbatim(input, scan, 2, 5)
    /\ Len(scan.out) = 16

\* The first '[' of text that no ']' follows, 0 when there is none
FirstUnclosed(text) ==
    LET closes == { i \in 1..Len(text) : text[i] = RBRACKET }
        last == IF closes = {} THEN 0 ELSE CHOOSE i \in closes : \A j \in closes : j <= i
        opens == { i \in (last + 1)..Len(text) : text[i] = LBRACKET }
    IN  IF opens = {} THEN 0 ELSE CHOOSE i \in opens : \A j \in opens : i <= j

\* The output ends with characters lo..Len(text) of text, each copied from
\* its own position, nothing injected between or after them
EndsWithCopy(text, st, lo) ==
    LET n == Len(text) - lo + 1
        off == Len(st.out) - n
    IN  /\ off >= 0
        /\ \A t \in lo..Len(text) :
              st.src[off + (t - lo) + 1] = t /\ st.out[off + (t - lo) + 1] = text[t]

\* C11: on a message with a '[' that no ']' follows, color_text with a
\* strategy other than Cubic returns, in solid and in gradient mode; the
\* output ends with the message from that '[' on, copied verbatim, with no
\* ']' appended, suppression being still active; and in solid mode, on any
\* message, a ']' is appended at the end only when a colour tag is open.
C11_UnclosedBracketCopied ==
    /\ (ncalls > 0 /\ before.interpolation # "Cubic" /\ FirstUnclosed(input) # 0) =>
          /\ ~scan.panicked
          /\ scan.ignore
          /\ EndsWithCopy(input, scan, FirstUnclosed(input))
    /\ (SolidCall /\ scan.out # <<>> /\ scan.src[Len(scan.src)] = 0) => ~scan.ignore

C11_Witness ==
    /\ SolidCall
    /\ input = <<LOWER_A, LBRACKET, LOWER_A>>
    /\ scan.out = Wrapped(RedHex, <<LOWER_A>>) \o <<LBRACKET, LOWER_A>>

GradientCall == Returned /\ Len(before.colors) > 1

\* Whether the gradient scanner copies character i of text as it is: the
\* character is a '[' or stands in a span a '[' opened
Suppressed(text, i) == text[i] = LBRACKET \/ OpenAfter(text, i - 1)

\* The characters before position i that color_text wraps in a colour tag
WrappedBefore(text, i) ==
    { j \in 1..(i - 1) : ~Suppressed(text, j) /\ text[j] # SPACE }

\* The characters before position i that color_text hands to Colorer::color
ColoredBefore(text, i) == { j \in 1..(i - 1) : ~Suppressed(text, j) }

\* Colorer::color is called on the characters outside spans, in order
CallsOutsideSpans ==
    /\ \A k \in 1..Len(scan.calls) :
          /\ scan.calls[k].at \in 1..Len(input)
          /\ ~Suppressed(input, scan.calls[k].at)
          /\ scan.calls[k].c = input[scan.calls[k].at]
          /\ scan.calls[k].total = Len(input)
          /\ k > 1 => scan.calls[k - 1].at < scan.calls[k].at
    /\ Len(scan.calls) = Cardinality(ColoredBefore(input, Len(input) + 1))

\* C12 as stated: in gradient mode the index counts the characters wrapped
\* in a colour tag, spaces and characters of spans left out, and every
\* character handed to Colorer::color gets the position (characters wrapped
\* before it) / (characters of the message).
C12_IndexCountsWrapped ==
    GradientCall =>
        /\ CallsOutsideSpans
        /\ scan.index = Cardinality(WrappedBefore(input, Len(input) + 1))
        /\ \A k \in 1..Len(scan.calls) :
              scan.calls[k].index = Cardinality(WrappedBefore(input, scan.calls[k].at))

\* C12, amended: in gradient mode the index counts the characters handed to
\* Colorer::color, which are the characters outside spans, spaces included
\* (a space is returned unwrapped but counted); every such character gets
\* the position (characters outside spans before it) / (characters of the
\* message).
C12_IndexCountsColored ==
    GradientCall =>
        /\ CallsOutsideSpans
        /\ scan.index = Cardinality(ColoredBefore(input, Len(input) + 1))
        /\ \A k \in 1..Len(scan.calls) :
              scan.calls[k].index = Cardinality(ColoredBefore(input, scan.calls[k].at))

C12_Witness ==
    /\ GradientCall
    /\ input = <<LOWER_A, SPACE, LBRACKET, RBRACKET, LOWER_A>>
    /\ Len(scan.calls) = 3
    /\ scan.calls[3].at = 5
    /\ scan.calls[3].index = 2
    /\ scan.calls[3].total = 5
    /\ scan.index = 3

\* The calls of Colorer::color that reach the position arithmetic
PositionCalls ==
    IF ncalls > 0 /\ Len(before.colors) > 1
    THEN { k \in 1..Len(scan.calls) : scan.calls[k].c # SPACE }
    ELSE {}

PositionOf(call) == <<call.index, call.total>>

\* lo <= x < hi
RWithin(x, lo, hi) == ~RLess(x, lo) /\ RLess(x, hi)

RZero == <<0, 1>>

ROne == <<1, 1>>

\* C14 as stated: in every call of Colorer::color made by color_text the
\* position is in [0, 1), the scaled and shifted position is in
\* [0, 2 * repeat), and the position after the one subtraction is in
\* [0, repeat).
C14_PositionWithinTwoRepeats ==
    \A k \in PositionCalls :
        LET position == PositionOf(scan.calls[k])
        IN  /\ RWithin(position, RZero, ROne)
            /\ RWithin(ShiftedPosition(colorer, position), RZero,
                       RMul(<<2, 1>>, colorer.repeat))
            /\ RWithin(WrapPosition(colorer, position), RZero, colorer.repeat)

\* C14, amended: the position is in [0, 1) and the scaled and shifted
\* position in [0, repeat + 1); when there is no shift or repeat is at least
\* 1, it is in [0, 2 * repeat) and the one subtraction leaves it in
\* [0, repeat).
C14_PositionWithinRepeatPlusOne ==
    \A k \in PositionCalls :
        LET position == PositionOf(scan.calls[k])
        IN  /\ RWithin(position, RZero, ROne)
            /\ RWithin(ShiftedPosition(colorer, position), RZero,
                       RAdd(colorer.repeat, ROne))
            /\ (colorer.shift = None \/ ~RLess(colorer.repeat, ROne)) =>
                  /\ RWithin(ShiftedPosition(colorer, position), RZero,
                             RMul(<<2, 1>>, colorer.repeat))
                  /\ RWithin(WrapPosition(colorer, position), RZero, colorer.repeat)

C14_Witness ==
    /\ colorer.shift # None
    /\ colorer.repeat = ROne
    /\ \E k \in PositionCalls :
          /\ ~RLess(ShiftedPosition(colorer, PositionOf(scan.calls[k])), colorer.repeat)
          /\ RWithin(WrapPosition(colorer, PositionOf(scan.calls[k])), RZero,
                     colorer.repeat)

\* The six hexadecimal digits of the tag put around character at of the text
TagHexAt(st, at) ==
    LET p == CHOOSE q \in 1..Len(st.src) : st.src[q] = at
    IN  SubSeq(st.out, p - 7, p - 2)

\* The two endpoints Colorer::color selects for a call do not wrap around
\* the colour list
EndpointsInOrder(self, call) ==
    LET x == ColorPosition(self, PositionOf(call))
        n == Len(self.colors)
    IN  /\ ~RLess(<<n - 1, 1>>, x)
        /\ RFloor(x) % n = RFloor(x)
        /\ RCeil(x) % n = RCeil(x)
        /\ RCeil(x) < n
        /\ ~(RFloor(x) % n = n - 1 /\ RCeil(x) % n = 0)
        /\ call.index = 0 =>
              TagHexAt(scan, call.at) = ColorDisplay(self.colors[1])

\* C15 as stated: with no shift, for every character the left endpoint is
\* floor(x) and the right endpoint ceil(x) with x <= colorCount - 1: no
\* index wraps around the colour list, the first character gets the first
\* colour, no character is interpolated from the last colour to the first.
C15_EndpointsNeverWrap ==
    (Returned /\ colorer.shift = None) =>
        \A k \in PositionCalls : EndpointsInOrder(colorer, scan.calls[k])

\* C15, amended: the same, for a repeat factor of at most 1.
C15_EndpointsNeverWrapUpToRepeatOne ==
    (Returned /\ colorer.shift = None /\ ~RLess(ROne, colorer.repeat)) =>
        \A k \in PositionCalls : EndpointsInOrder(colorer, scan.calls[k])

C15_Witness ==
    /\ Returned
    /\ colorer.shift = None
    /\ colorer.repeat = ROne
    /\ Len(colorer.colors) = 2
    /\ \E k \in PositionCalls :
          /\ RFloor(ColorPosition(colorer, PositionOf(scan.calls[k]))) = 0
          /\ RCeil(ColorPosition(colorer, PositionOf(scan.calls[k]))) = 1
    /\ \E k \in PositionCalls :
          /\ scan.calls[k].index = 0
          /\ TagHexAt(scan, scan.calls[k].at) = RedHex

\* C16: color_text aborts exactly when the strategy is Cubic, the gradient
\* has more than one colour and the message has a character other than a
\* space outside every bracketed span; in every other case it returns.
C16_AbortsOnlyOnCubicPath ==
    ncalls > 0 =>
        (scan.panicked <=>
            /\ before.interpolation = "Cubic"
            /\ Len(before.colors) > 1
            /\ \E i \in 1..Len(message) :
                  ~Suppressed(message, i) /\ message[i] # SPACE)

C16_Witness ==
    /\ ncalls > 0
    /\ scan.panicked
    /\ before.interpolation = "Cubic"
    /\ input = <<SPACE, LBRACKET, LOWER_A, RBRACKET, LOWER_A>>
    /\ scan.out = <<SPACE, LBRACKET, LOWER_A, RBRACKET>>

\* Every ']' of text closes a span a '[' opened
NoStrayClose(text) ==
    \A i \in 1..Len(text) : text[i] = RBRACKET => OpenAfter(text, i - 1)

CopiesAreMessage(text, st) ==
    LET copied == { k \in 1..Len(st.out) : st.src[k] # 0 }
    IN  /\ Len(st.src) = Len(st.out)
        /\ Cardinality(copied) = Len(text)
        /\ \A k \in copied : st.src[k] \in 1..Len(text) /\ st.out[k] = text[st.src[k]]
        /\ \A k \in copied : \A l \in copied : k < l => st.src[k] < st.src[l]

IsHexDigit(ch) == (48 <= ch /\ ch <= 57) \/ (97 <= ch /\ ch <= 102)

\* An injected "[c/HEX:" stands at k .. k + 9 of st.out
OpenerAt(st, k) ==
    /\ k + 9 <= Len(st.out)
    /\ \A j \in k..(k + 9) : st.src[j] = 0
    /\ SubSeq(st.out, k, k + 2) = <<LBRACKET, LOWER_C, SLASH>>
    /\ \A j \in (k + 3)..(k + 8) : IsHexDigit(st.out[j])
    /\ st.out[k + 9] = COLON

\* From k on, what was injected in st.out is tags "[c/HEX:" X "]" around
\* one copied character X each
RECURSIVE OneCharTags(_, _)
OneCharTags(st, k) ==
    IF k > Len(st.out) THEN TRUE
    ELSE IF st.src[k] # 0 THEN OneCharTags(st, k + 1)
    ELSE /\ OpenerAt(st, k)
         /\ k + 11 <= Len(st.out)
         /\ st.src[k + 10] # 0
         /\ st.src[k + 11] = 0
         /\ st.out[k + 11] = RBRACKET
         /\ OneCharTags(st, k + 12)

\* From k on, what was injected in st.out is openers "[c/HEX:" and single
\* ']'; with paired set, a ']' only after an opener that none has followed
\* yet, an opener only when none is pending, and none pending at the end
RECURSIVE OpenersAndClosers(_, _, _, _)
OpenersAndClosers(st, k, paired, pending) ==
    IF k > Len(st.out) THEN ~(paired /\ pending)
    ELSE IF st.src[k] # 0 THEN OpenersAndClosers(st, k + 1, paired, pending)
    ELSE IF st.out[k] = RBRACKET
         THEN (paired => pending) /\ OpenersAndClosers(st, k + 1, paired, FALSE)
         ELSE /\ OpenerAt(st, k)
              /\ paired => ~pending
              /\ OpenersAndClosers(st, k + 10, paired, TRUE)

\* C20: the output with the injected characters deleted is the message;
\* what is injected is openers "[c/HEX:" and closing ']' only; in gradient
\* mode every injected tag encloses exactly one character of the message;
\* in solid mode, on a message in which every ']' closes a span, every
\* opener has its own injected ']'.
C20_OnlyInsertsMarkup ==
    (ncalls > 0 /\ ~scan.panicked) =>
        /\ CopiesAreMessage(message, scan)
        /\ OpenersAndClosers(scan, 1, FALSE, FALSE)
        /\ Len(before.colors) > 1 => OneCharTags(scan, 1)
        /\ (Len(before.colors) = 1 /\ NoStrayClose(message)) =>
              OpenersAndClosers(scan, 1, TRUE, FALSE)

C20_Witness ==
    /\ GradientCall
    /\ input = <<LOWER_A, RBRACKET, LBRACKET, SPACE, LOWER_A>>
    /\ Len(scan.out) = 27
    /\ scan.src[11] = 1
    /\ scan.src[23] = 2
    /\ SubSeq(scan.src, 25, 27) = <<3, 4, 5>>


(***************************************************************************)
(* Claims about the framer (SpecFramer, SpecLong) and the length codec     *)
(* (SpecCodec).                                                            *)
(***************************************************************************)
HeaderBytes == <<82, 1, 0, 3, 83, 97, 121>>

\* C1: a buffer shorter than 10 bytes, or whose bytes at offsets 2..8 are not
\* 52 01 00 03 53 61 79, is returned byte for byte, and the Colorer, its
\* phase shift included, is left as it was.
C1_NonChatPassesThrough ==
    (ncalls > 0 /\ (Len(input) < 10 \/ SubSeq(input, 3, 9) # HeaderBytes)) =>
        /\ output = input
        /\ colorer = before
        /\ draws = 0

C1_Witness ==
    /\ ncalls > 0
    /\ Len(input) >= 10
    /\ SubSeq(input, 3, 8) = SubSeq(HeaderBytes, 1, 6)
    /\ input[9] # HeaderBytes[7]
    /\ output = input
    /\ colorer = before

\* C2: for a chat packet the output is the two-byte little-endian value
\* 9 + w + L, the header, the w bytes of the encoded length L, and the
\* recoloured text, L being that text's length in bytes.
C2_RebuiltPacket ==
    (ncalls > 0 /\ IsChat(input) /\ ~scan.panicked) =>
        LET bytes == StringBytes(scan.out)
            L == Len(bytes)
            w == Len(output) - 9 - L
        IN  /\ w \in {1, 2}
            /\ output[1] + 256 * output[2] = 9 + w + L
            /\ SubSeq(output, 3, 9) = HeaderBytes
            /\ SubSeq(output, 10, 9 + w) = terraria_type(L)
            /\ SubSeq(output, 10 + w, Len(output)) = bytes

\* C3: the encoder returns the one byte value for value <= 127 and the two
\* bytes (value mod 128) + 128, value div 128 for 127 < value < 32768.
C3_VarintEncoding ==
    encoded # <<>> =>
        /\ value <= 127 => encoded = <<value>>
        /\ (127 < value /\ value < 32768) =>
              encoded = <<(value % 128) + 128, value \div 128>>

C3_Witness == value = 300 /\ encoded = <<172, 2>>

\* C10: a call of color_text in gradient mode with shifting enabled draws the
\* shift once, and every character of the message is coloured with that one
\* shift; a call in solid mode leaves the shift as it was; with shifting
\* disabled the shift is absent in every state.
C10_ShiftDrawnOncePerGradientCall ==
    /\ ~config[2] => colorer.shift = None
    /\ (ncalls > 0 /\ IsChat(input)) =>
          IF Len(before.colors) > 1 /\ config[2]
          THEN /\ draws = 1
               /\ colorer.shift # None
               /\ \A k \in 1..Len(scan.calls) : scan.calls[k].shift = colorer.shift
          ELSE /\ draws = 0
               /\ colorer.shift = before.shift

C10_Witness ==
    /\ ncalls = 2
    /\ IsChat(input)
    /\ Len(before.colors) > 1
    /\ draws = 1
    /\ colorer.shift # before.shift
    /\ Len(scan.calls) >= 2
    /\ \A k \in 1..Len(scan.calls) : scan.calls[k].shift = colorer.shift

\* C13: for a chat packet whose text is shorter than 32768 bytes, the value
\* the framer hands to terraria_type, the byte length of the recoloured
\* text, is below 32768.
C13_EncoderWithinRange ==
    (ncalls > 0 /\ IsChat(input) /\ ~scan.panicked
        /\ Len(input) - RealMsgPos(input) < 32768) =>
        Len(StringBytes(scan.out)) < 32768

\* buffer is one well-formed chat packet whose length field is w bytes wide:
\* the prefix gives the length of the buffer, the header follows, then the
\* encoding of the byte length of the text, below 32768, then the text
IsPacket(buffer, w) ==
    /\ Len(buffer) >= 9 + w
    /\ Len(buffer) - 9 - w < 32768
    /\ SubSeq(buffer, 1, 2) = ToLeBytes(Len(buffer))
    /\ SubSeq(buffer, 3, 9) = HeaderBytes
    /\ SubSeq(buffer, 10, 9 + w) = terraria_type(Len(buffer) - 9 - w)

\* C18: on a well-formed chat packet the width the framer infers from the
\* size of the buffer is the width of the packet's length field, so the
\* text handed to color_text is the decoded text of the packet; and every
\* packet the framer builds, its text being shorter than 32768 bytes, is
\* such a packet.
C18_InferredWidthIsEncodedWidth ==
    ncalls > 0 =>
        /\ \A w \in {1, 2} :
              IsPacket(input, w) =>
                  /\ RealMsgPos(input) = 9 + w
                  /\ message = from_utf8_lossy(SubSeq(input, 10 + w, Len(input)))
        /\ (IsChat(input) /\ ~scan.panicked /\ Len(StringBytes(scan.out)) < 32768) =>
              \E w \in {1, 2} : IsPacket(output, w) /\ RealMsgPos(output) = 9 + w

C18_Witness ==
    /\ ncalls = 2
    /\ IsPacket(input, 2)
    /\ Len(input) = 139
    /\ Len(message) = 128


(***************************************************************************)
(* Claims about the relay (Spec).                                          *)
(***************************************************************************)
RECURSIVE Flatten(_)
Flatten(buffers) ==
    IF buffers = <<>> THEN <<>> ELSE Head(buffers) \o Flatten(Tail(buffers))

NoChatRead(p) == \A k \in 1..Len(p.readLog) : ~IsChat(p.readLog[k])

\* C7: whenever a server->client pump stands between two iterations, the
\* bytes its write handle accepted are the buffers it read, in read order,
\* nothing dropped, doubled, changed or moved; likewise for a client->server
\* pump that has read no chat packet.
C7_ForwardsBuffersInReadOrder ==
    \A c \in 1..Len(conns) :
        /\ conns[c].s2c.pc = "read" => conns[c].s2c.sent = Flatten(conns[c].s2c.readLog)
        /\ (conns[c].c2s.pc = "read" /\ NoChatRead(conns[c].c2s)) =>
              conns[c].c2s.sent = Flatten(conns[c].c2s.readLog)

Failed(p) == p.readErr \/ p.writeErr # ""

\* C8: once a read or a write of a pump has failed, that pump makes no
\* further read or write.
C8_PumpStopsAfterFailure ==
    [][\A c \in 1..Len(conns) : \A d \in Dirs :
          Failed(conns[c][d]) => conns'[c][d].io = conns[c][d].io]_vars

AnyWriteFailed == \E c \in 1..Len(conns) : \E d \in Dirs : conns[c][d].writeErr # ""

\* C9: when a write of any pump fails, with a broken pipe or with any other
\* error, the process ends, and from then on no pump of any connection reads
\* or writes and no connection is accepted.
C9_WriteFailureEndsProcess ==
    [][/\ AnyWriteFailed' => exited'
       /\ AnyWriteFailed =>
             /\ Len(conns') = Len(conns)
             /\ \A c \in 1..Len(conns) : \A d \in Dirs :
                   conns'[c][d].io = conns[c][d].io]_vars

C9_Witness ==
    /\ exited
    /\ exitCode = 1
    /\ Len(conns) = 2
    /\ conns[1].s2c.writeErr = "Other"
    /\ conns[2].c2s.pc = "write"
    /\ conns[2].c2s.writeErr = ""

\* What the thread of each direction may use, and how
OwnUses ==
    { <<"c2s", "read_stream", "read">>, <<"c2s", "write_connector", "write">>,
      <<"c2s", "colorer", "color_text">>,
      <<"s2c", "read_connector", "read">>, <<"s2c", "write_stream", "write">> }

\* C17: in every connection each of the four handles is used by one of the
\* two pump threads only and in one direction only, the client->server pump
\* reading read_stream and writing write_connector, the server->client pump
\* reading read_connector and writing write_stream, and the Colorer is used
\* by the client->server pump only; nothing is used by both threads.
C17_HandlesOwnedByOnePump ==
    \A c \in 1..Len(conns) :
        /\ conns[c].access \subseteq OwnUses
        /\ \A a \in conns[c].access : \A b \in conns[c].access :
              a[2] = b[2] => (a[1] = b[1] /\ a[3] = b[3])

C17_Witness ==
    \E c \in 1..Len(conns) :
        /\ conns[c].access = OwnUses
        /\ conns[c].c2s.pc = "read"
        /\ conns[c].s2c.pc = "read"

=============================================================================
